---- MODULE Spec2Model ----
(***************************************************************************)
(* Model of the LZHUF block decoder of src/src/lzhuf/decoder.rs:           *)
(* LzhufHuffmanDecoder, LzhufDecoderInner (dec_len, dec_len_tree,          *)
(* dec_symb_tree, dec_offs_tree, init_block) and Decoder::next.            *)
(*                                                                         *)
(* The bit reader (bitio) and the canonical Huffman decoder (huffman) are  *)
(* collaborators whose code is not part of decoder.rs; they are modelled   *)
(* from their contracts in spec.md section 6.                              *)
(***************************************************************************)
EXTENDS Integers, Sequences, FiniteSets, TLC

VARIABLES
    input,           \* the bit source: the whole bit sequence behind the reader
    pos,             \* the reader's position: number of bits consumed so far
    offset_len,      \* LzhufDecoderInner.offset_len (P)
    block_len,       \* LzhufDecoderInner.block_len
    symbol_decoder,  \* LzhufDecoderInner.symbol_decoder
    offset_decoder,  \* LzhufDecoderInner.offset_decoder
    overflow_checks, \* the build: whether integer overflow panics (debug) or wraps (release)
    result,          \* what the last call of next() returned
    trace,           \* history: what the last call of next() read and decoded
    hist             \* history across calls: block index, declared count, codes returned

vars == <<input, pos, offset_len, block_len, symbol_decoder, offset_decoder,
          overflow_checks, result, trace, hist>>

----------------------------------------------------------------------------
(* Bounds of the model *)

\* number of next() calls a behaviour makes
MaxCalls == 5

\* largest code count a block header of the generated inputs declares
MaxCount == 2

----------------------------------------------------------------------------
(* Program constants *)

\* const SEARCH_TAB_LEN: usize = 12
SEARCH_TAB_LEN == 12

\* min_match: LZSS_MIN_MATCH
LZSS_MIN_MATCH == 3

\* width in bits of the u8 fields read with read_bits::<u8>
U8 == 8

\* width in bits of the u16 fields read with read_bits::<u16>
U16 == 16

----------------------------------------------------------------------------
(* Bit source: read_bits(width) -> (value, bitsDelivered), MSB first.      *)

RECURSIVE BitsVal(_, _)
\* the value of the n bits after position p, most significant bit first
BitsVal(p, n) ==
    IF n = 0 THEN 0 ELSE 2 * BitsVal(p, n - 1) + input[p + n]

\* reader.read_bits::<T>(w) at position p, T an unsigned type of tw bits.
\* Delivers min(w, bits left) bits; a short read is no error of the reader.
\* data() is a T: a value wider than tw bits is cut to its low tw bits.
ReadBits(p, w, tw) ==
    LET left == Len(input) - p
        n    == IF left < w THEN left ELSE w
    IN  [data |-> BitsVal(p, n) % (2 ^ tw), len |-> n, pos |-> p + n]

----------------------------------------------------------------------------
(* Canonical Huffman table: build(lengths, lookupWidth), decode.           *)

\* number of symbols of code length l
LenCount(ll, l) == Cardinality({i \in 1..Len(ll) : ll[i] = l})

\* the longest code length of the list (0 for an empty or all-zero list)
MaxCodeLen(ll) ==
    IF Len(ll) = 0 THEN 0
    ELSE CHOOSE m \in {ll[i] : i \in 1..Len(ll)} :
             \A i \in 1..Len(ll) : ll[i] <= m

RECURSIVE KraftLeft(_, _, _)
\* the number of unassigned codes of length l - 1 is avail; assign the codes
\* of length l..MaxCodeLen. -1: over-subscribed; 0: complete; > 0: codes left.
KraftLeft(ll, l, avail) ==
    IF l > MaxCodeLen(ll) THEN avail
    ELSE LET a == 2 * avail - LenCount(ll, l)
         IN  IF a < 0 THEN -1
             ELSE IF a > Len(ll) THEN a
             ELSE KraftLeft(ll, l + 1, a)

\* HuffmanDecoder::new(&ll, stab_bits): fails unless the lengths describe a
\* complete prefix code (neither under- nor over-subscribed).
HuffmanNew(ll, stab_bits) ==
    [ok |-> KraftLeft(ll, 1, 1) = 0, ll |-> ll]

\* the k-th symbol (k >= 0), by ascending index, among those of code length l
SymOfLen(ll, l, k) ==
    LET S == {i \in 1..Len(ll) : ll[i] = l}
    IN  (CHOOSE i \in S : Cardinality({j \in S : j < i}) = k) - 1

RECURSIVE HuffWalk(_, _, _, _, _, _)
\* canonical decoding, one bit at a time: codes are assigned by ascending
\* (length, symbol index). q is the position of the next bit, p0 the start.
HuffWalk(ll, p0, q, l, code, first) ==
    IF q >= Len(input) \/ l > MaxCodeLen(ll)
    THEN [none |-> TRUE, sym |-> 0, pos |-> p0]
    ELSE LET c   == code + input[q + 1]
             cnt == LenCount(ll, l)
         IN  IF c - first < cnt
             THEN [none |-> FALSE, sym |-> SymOfLen(ll, l, c - first), pos |-> q + 1]
             ELSE HuffWalk(ll, p0, q + 1, l + 1, 2 * c, 2 * (first + cnt))

\* HuffmanDecoder::dec(reader): one symbol, or None when the source is exhausted
HuffmanDec(ll, p) == HuffWalk(ll, p, p, 1, 0, 0)

----------------------------------------------------------------------------
(* enum LzhufHuffmanDecoder { HuffmanDecoder(..), Default(u16) } and the   *)
(* Option around it in LzhufDecoderInner. blk is history: the index of the *)
(* block whose header the table was built from.                            *)

NoDecoder == [tag |-> "None", s |-> 0, ll |-> <<>>, blk |-> 0]

DefaultDecoder(s) == [tag |-> "Default", s |-> s, ll |-> <<>>, blk |-> 0]

RealDecoder(ll) == [tag |-> "HuffmanDecoder", s |-> 0, ll |-> ll, blk |-> 0]

\* Dec with a constant table that takes a bit from the reader per decode
DecReadingBit(d, p) ==
    IF d.tag = "Default"
    THEN [none |-> FALSE, sym |-> d.s, pos |-> p + 1]
    ELSE HuffmanDec(d.ll, p)

\* LzhufHuffmanDecoder::dec: Default(s) returns s and reads nothing
Dec(d, p) ==
    IF d.tag = "Default"
    THEN [none |-> FALSE, sym |-> d.s, pos |-> p]
    ELSE HuffmanDec(d.ll, p)

----------------------------------------------------------------------------
(* Table reconstruction. Every routine returns the reader position it      *)
(* leaves, err ("" for Ok), and history fields: short (some read delivered *)
(* fewer bits than asked for) and what the routine read; items is the      *)
(* sequence of the symbols dec_symb_tree decoded, each with its extra      *)
(* bits, and in the other two routines the sequence of the dec_len calls.  *)
(* err is "Panic" when the routine did not return.                         *)

\* n zeros
Zeros(n) == [i \in 1..n |-> 0]

\* what dec_len returns: the value c and the reader position; history:
\* short (a read delivered too few bits), wrapped (c += 1 wrapped around),
\* panic (c += 1 aborted), at (the position dec_len started at)
LenResult(c, p, sh, panic) ==
    [c |-> c, pos |-> p, short |-> sh, panic |-> panic, wrapped |-> FALSE,
     at |-> 0]

RECURSIVE FlagRun(_)
\* the number of turns the while loop of dec_len takes at position p: the
\* flags equal to 1 before the first flag 0 or the end of the input,
\* counted 16 at a time
FlagRun(p) ==
    IF p + 16 <= Len(input) /\ \A i \in 1..16 : input[p + i] = 1
    THEN 16 + FlagRun(p + 16)
    ELSE CHOOSE k \in 0..15 :
             /\ p + k <= Len(input)
             /\ \A i \in 1..k : input[p + i] = 1
             /\ (p + k = Len(input) \/ input[p + k + 1] = 0)

\* the end of the while loop of dec_len: f is the read that did not
\* deliver a flag 1
DecLenEnd(f, c, sh) == LenResult(c, f.pos, sh \/ f.len < 1, FALSE)

\* history: the rest of dec_len d after a c += 1 that wrapped around
Wrapped(d) == [d EXCEPT !.wrapped = TRUE]

\* c += 1 on the u8 that holds 255, in a loop of k turns from c: an
\* arithmetic-overflow panic at that turn in a build with overflow checks,
\* a wrap to 0 and the turns that remain in a build without
DecLenOverflow(p, c, sh, k) ==
    IF overflow_checks
    THEN LenResult(2 ^ U8 - 1, p + (2 ^ U8 - c), sh, TRUE)
    ELSE Wrapped(DecLenEnd(ReadBits(p + k, 1, U8), (c + k) % (2 ^ U8), sh))

\* the while loop of dec_len when it takes k turns: k times c += 1, then
\* the read that ends it
DecLenTurns(p, c, sh, k) ==
    IF c + k >= 2 ^ U8
    THEN DecLenOverflow(p, c, sh, k)
    ELSE DecLenEnd(ReadBits(p + k, 1, U8), c + k, sh)

\* the while loop of dec_len at position p: it goes on while the flag read
\* is 1
DecLenExt(p, c, sh) == DecLenTurns(p, c, sh, FlagRun(p))

\* dec_len after its 3-bit field r: extended in unary when the field is 7
DecLenBase(r) ==
    IF r.data = 7
    THEN DecLenExt(r.pos, r.data, r.len < 3)
    ELSE LenResult(r.data, r.pos, r.len < 3, FALSE)

\* history: d, what dec_len returned, with the position it started at
StartedAt(p, d) == [d EXCEPT !.at = p]

\* dec_len(reader)
DecLen(p) == StartedAt(p, DecLenBase(ReadBits(p, 3, U8)))

\* the table routine's result for the list ll, h the outcome of
\* HuffmanDecoder::new: .map_err(|_| DataError)?
TableOf(h, p, sh, len, esc) ==
    [err   |-> IF h.ok THEN "" ELSE "DataError",
     dec   |-> IF h.ok THEN RealDecoder(h.ll) ELSE NoDecoder,
     pos   |-> p, short |-> sh, len |-> len, ll |-> h.ll, esc |-> esc,
     built |-> TRUE, items |-> <<>>]

\* Ok(LzhufHuffmanDecoder::HuffmanDecoder(HuffmanDecoder::new(&ll, n)
\*     .map_err(|_| DataError)?))
BuildTable(ll, stab_bits, p, sh, len, esc) ==
    TableOf(HuffmanNew(ll, stab_bits), p, sh, len, esc)

\* a table routine that returns early with an error
TreeErr(e, ll, p, sh, len, esc) ==
    [err |-> e, dec |-> NoDecoder, pos |-> p, short |-> sh, len |-> len,
     ll |-> ll, esc |-> esc, built |-> FALSE, items |-> <<>>]

\* Ok(LzhufHuffmanDecoder::Default(k.data())), k the field read
DefaultOf(k, w, sh) ==
    [err |-> "", dec |-> DefaultDecoder(k.data), pos |-> k.pos,
     short |-> sh \/ k.len < w, len |-> 0, ll |-> <<>>, esc |-> -1,
     built |-> FALSE, items |-> <<>>]

\* the len == 0 branch of the three table routines: the constant is the next
\* field of the same width
DefaultTable(w, p, sh) == DefaultOf(ReadBits(p, w, U16), w, sh)

\* Overshoot with the check left out
OvershootUnchecked(n, len) == FALSE

\* the check after the escape's pushes: if ll.len() > len { return Err(DataError) }
Overshoot(n, len) == n > len

RECURSIVE LenTreeLoop(_, _, _, _, _)
\* history: the rest of the loop t with the dec_len call d made before it
WithLen(d, t) == [t EXCEPT !.items = <<d>> \o @]

\* ll.push(self.dec_len(reader)?), d the value dec_len returned
LenTreePush(ll, len, d, sh, esc) ==
    IF d.panic
    THEN WithLen(d, TreeErr("Panic", ll, d.pos, sh \/ d.short, len, esc))
    ELSE WithLen(d, LenTreeLoop(Append(ll, d.c), len, d.pos, sh \/ d.short,
                                esc))

\* the escape of dec_len_tree, taken when ll.len() == 3: e is the 2-bit
\* repeat count read
LenTreeEscape(ll, len, e, sh) ==
    IF Overshoot(Len(ll) + e.data, len)
    THEN TreeErr("DataError", ll \o Zeros(e.data), e.pos, sh \/ e.len < 2,
                 len, e.data)
    ELSE IF Len(ll) + e.data = len
    THEN BuildTable(ll \o Zeros(e.data), 5, e.pos, sh \/ e.len < 2, len, e.data)
    ELSE LenTreePush(ll \o Zeros(e.data), len, DecLen(e.pos),
                     sh \/ e.len < 2, e.data)

\* LenTreeLoop that goes on while ll.len() <= len
LenTreeLoopInclusive(ll, len, p, sh, esc) ==
    IF ~(Len(ll) <= len)
    THEN BuildTable(ll, 5, p, sh, len, esc)
    ELSE IF Len(ll) = 3
    THEN LenTreeEscape(ll, len, ReadBits(p, 2, U8), sh)
    ELSE LenTreePush(ll, len, DecLen(p), sh, esc)

\* LenTreeLoop that reads an escape before every item after the third
LenTreeLoopEscapeAgain(ll, len, p, sh, esc) ==
    IF ~(Len(ll) < len)
    THEN BuildTable(ll, 5, p, sh, len, esc)
    ELSE IF Len(ll) >= 3
    THEN LenTreeEscape(ll, len, ReadBits(p, 2, U8), sh)
    ELSE LenTreePush(ll, len, DecLen(p), sh, esc)

\* the while loop of dec_len_tree; esc is the repeat count the escape read,
\* -1 while it has not been read
LenTreeLoop(ll, len, p, sh, esc) ==
    IF ~(Len(ll) < len)
    THEN BuildTable(ll, 5, p, sh, len, esc)
    ELSE IF Len(ll) = 3
    THEN LenTreeEscape(ll, len, ReadBits(p, 2, U8), sh)
    ELSE LenTreePush(ll, len, DecLen(p), sh, esc)

\* dec_len_tree after its count field r
LenTreeCount(tbit_len, r) ==
    IF r.data = 0
    THEN DefaultTable(tbit_len, r.pos, r.len < tbit_len)
    ELSE LenTreeLoop(<<>>, r.data, r.pos, r.len < tbit_len, -1)

\* dec_len_tree(tbit_len, reader)
DecLenTree(tbit_len, p) == LenTreeCount(tbit_len, ReadBits(p, tbit_len, U16))

RECURSIVE SymbTreeLoop(_, _, _, _, _)
\* history: the rest of the loop t with the item decoded before it. sym is
\* the symbol of the code-length table, w and e the width and the value of
\* its extra bits, at the length of the list when it was decoded
WithItem(sym, w, e, at, t) ==
    [t EXCEPT !.items = <<[sym |-> sym, w |-> w, e |-> e, at |-> at]>> \o @]

\* SymbTreeRun with the overshoot check of dec_len_tree
SymbTreeRunChecked(lt, ll, len, sym, base, e, w, sh) ==
    IF Len(ll) + base + e.data > len
    THEN TreeErr("DataError", ll \o Zeros(base + e.data), e.pos,
                 sh \/ e.len < w, len, -1)
    ELSE WithItem(sym, w, e.data, Len(ll),
                  SymbTreeLoop(lt, ll \o Zeros(base + e.data), len, e.pos,
                               sh \/ e.len < w))

\* a run of zeros in dec_symb_tree: base + e zeros, e the w extra bits read
SymbTreeRun(lt, ll, len, sym, base, e, w, sh) ==
    WithItem(sym, w, e.data, Len(ll),
             SymbTreeLoop(lt, ll \o Zeros(base + e.data), len, e.pos,
                          sh \/ e.len < w))

\* the match of dec_symb_tree on d, the symbol of the code-length table
SymbTreeItem(lt, ll, len, d, sh) ==
    IF d.none
    THEN TreeErr("UnexpectedEof", ll, d.pos, sh, len, -1)
    ELSE IF d.sym = 0
    THEN WithItem(0, 0, 0, Len(ll),
                  SymbTreeLoop(lt, Append(ll, 0), len, d.pos, sh))
    ELSE IF d.sym = 1
    THEN SymbTreeRun(lt, ll, len, 1, 3, ReadBits(d.pos, 4, U8), 4, sh)
    ELSE IF d.sym = 2
    THEN SymbTreeRun(lt, ll, len, 2, 20, ReadBits(d.pos, 9, U16), 9, sh)
    ELSE WithItem(d.sym, 0, 0, Len(ll),
                  SymbTreeLoop(lt, Append(ll, (d.sym - 2) % (2 ^ U8)), len,
                               d.pos, sh))

\* the while loop of dec_symb_tree: each symbol of the code-length table is
\* one entry or a run of zeros
SymbTreeLoop(lt, ll, len, p, sh) ==
    IF ~(Len(ll) < len)
    THEN BuildTable(ll, SEARCH_TAB_LEN, p, sh, len, -1)
    ELSE SymbTreeItem(lt, ll, len, Dec(lt, p), sh)

\* dec_symb_tree after its count field r
SymbTreeCount(lt, r) ==
    IF r.data = 0
    THEN DefaultTable(9, r.pos, r.len < 9)
    ELSE SymbTreeLoop(lt, <<>>, r.data, r.pos, r.len < 9)

\* dec_symb_tree(len_decoder, reader)
DecSymbTree(lt, p) == SymbTreeCount(lt, ReadBits(p, 9, U16))

RECURSIVE OffsTreeLoop(_, _, _, _)
\* one item of (0..len).map(|_| self.dec_len(reader)), d its value
OffsTreePush(ll, len, d, sh) ==
    IF d.panic
    THEN WithLen(d, TreeErr("Panic", ll, d.pos, sh \/ d.short, len, -1))
    ELSE WithLen(d, OffsTreeLoop(Append(ll, d.c), len, d.pos, sh \/ d.short))

\* (0..len).map(|_| self.dec_len(reader)).collect()
OffsTreeLoop(ll, len, p, sh) ==
    IF Len(ll) = len
    THEN BuildTable(ll, SEARCH_TAB_LEN, p, sh, len, -1)
    ELSE OffsTreePush(ll, len, DecLen(p), sh)

\* dec_offs_tree after its count field r
OffsTreeCount(pbit_len, r) ==
    IF r.data = 0
    THEN DefaultTable(pbit_len, r.pos, r.len < pbit_len)
    ELSE OffsTreeLoop(<<>>, r.data, r.pos, r.len < pbit_len)

\* dec_offs_tree(pbit_len, reader)
DecOffsTree(pbit_len, p) == OffsTreeCount(pbit_len, ReadBits(p, pbit_len, U16))

----------------------------------------------------------------------------
(* Block state machine: init_block and Decoder::next.                      *)

\* the history entry of a table routine that did not run in this call
NoTree ==
    [err |-> "", dec |-> NoDecoder, pos |-> 0, short |-> FALSE, len |-> -1,
     ll |-> <<>>, esc |-> -1, built |-> FALSE, items |-> <<>>]

\* the values next() returns: Ok(Some(Symbol)), Ok(Some(Reference)), Ok(None),
\* Err(e), or the panic of unwrap() on a decoder that is None
Symbol(b) == [kind |-> "Symbol", sym |-> b, len |-> 0, pos |-> 0, err |-> ""]

Reference(l, o) == [kind |-> "Reference", sym |-> 0, len |-> l, pos |-> o, err |-> ""]

OkNone == [kind |-> "None", sym |-> 0, len |-> 0, pos |-> 0, err |-> ""]

Err(e) == [kind |-> "Err", sym |-> 0, len |-> 0, pos |-> 0, err |-> e]

Panic == [kind |-> "Panic", sym |-> 0, len |-> 0, pos |-> 0, err |-> ""]

NotCalled == [kind |-> "NotCalled", sym |-> 0, len |-> 0, pos |-> 0, err |-> ""]

\* IsBlockHeader without the guard on the value
IsBlockHeaderAnyValue(h) == h.len = 16

\* the match guard of init_block: (s, 16) if s != 0
IsBlockHeader(h) == h.len = 16 /\ h.data # 0

\* what init_block leaves: its result (err, started), the reader position,
\* the fields of self, and as history the header and the table routines
InitResult(e, started, p, bl, sd, od, h, lt, st, ot) ==
    [err |-> e, started |-> started, pos |-> p, block_len |-> bl,
     symbol_decoder |-> sd, offset_decoder |-> od,
     hdrLen |-> h.len, hdrVal |-> h.data, lt |-> lt, st |-> st, ot |-> ot]

\* self.symbol_decoder = Some(..); blk records the block it was built for
StoreSymbol(st, b) == [st.dec EXCEPT !.blk = b]

\* self.offset_decoder = Some(..)
StoreOffset(ot, b) == [ot.dec EXCEPT !.blk = b]

\* init_block after dec_offs_tree: both decoders are stored, Ok(true); on
\* an error of dec_offs_tree the symbol decoder is already stored
InitOffs(h, lt, st, ot, b) ==
    IF ot.err # ""
    THEN InitResult(ot.err, FALSE, ot.pos, h.data, StoreSymbol(st, b),
                    offset_decoder, h, lt, st, ot)
    ELSE InitResult("", TRUE, ot.pos, h.data, StoreSymbol(st, b),
                    StoreOffset(ot, b), h, lt, st, ot)

\* init_block after dec_symb_tree
InitSymb(h, lt, st, b) ==
    IF st.err # ""
    THEN InitResult(st.err, FALSE, st.pos, h.data, symbol_decoder,
                    offset_decoder, h, lt, st, NoTree)
    ELSE InitOffs(h, lt, st, DecOffsTree(offset_len, st.pos), b)

\* init_block after dec_len_tree; block_len is already set to the count
InitLen(h, lt, b) ==
    IF lt.err # ""
    THEN InitResult(lt.err, FALSE, lt.pos, h.data, symbol_decoder,
                    offset_decoder, h, lt, NoTree, NoTree)
    ELSE InitSymb(h, lt, DecSymbTree(lt.dec, lt.pos), b)

\* init_block after the header read h
InitHeader(h, b) ==
    IF IsBlockHeader(h)
    THEN InitLen(h, DecLenTree(5, h.pos), b)
    ELSE InitResult("", FALSE, h.pos, block_len, symbol_decoder,
                    offset_decoder, h, NoTree, NoTree, NoTree)

\* init_block(reader) at position p; b is the index of the block it starts
InitBlock(p, b) == InitHeader(ReadBits(p, 16, U16), b)

\* next() when init_block is not called: block_len != 0
NoInit ==
    [err |-> "", started |-> TRUE, pos |-> pos, block_len |-> block_len,
     symbol_decoder |-> symbol_decoder, offset_decoder |-> offset_decoder,
     hdrLen |-> -1, hdrVal |-> 0, lt |-> NoTree, st |-> NoTree, ot |-> NoTree]

\* Decrement that leaves the counter as it is
DecrementSkipped(n) == n

\* self.block_len -= 1
Decrement(n) == n - 1

\* MatchLen without the minimum match length
MatchLenNoMin(sym) == sym - 256

\* let len = sym - 256 + self.min_match
MatchLen(sym) == sym - 256 + LZSS_MIN_MATCH

\* (1 << (k - 1)) | r.data(), r the k - 1 raw bits read at p. r.data has
\* fewer than k bits and fewer than 17, so the OR is a sum
OffsetWith(k, p, r) ==
    [off |-> (2 ^ (k - 1)) + r.data, pos |-> r.pos,
     req |-> k - 1, got |-> r.len, bits |-> BitsVal(p, r.len)]

\* if pos > 1 { pos = (1 << (pos - 1)) | read_bits::<u16>(pos - 1).data() }
OffsetOf(k, p) ==
    IF k > 1
    THEN OffsetWith(k, p, ReadBits(p, k - 1, U16))
    ELSE [off |-> k, pos |-> p, req |-> 0, got |-> 0, bits |-> 0]

\* what the decoding part of next() did: the value returned, the reader
\* position, and as history the symbol, the value of the offset table and
\* the raw bits
CodeResult(r, p, symDone, sym, symBits, offDecs, k, offBits, req, got, bits) ==
    [result |-> r, pos |-> p, symDone |-> symDone, sym |-> sym,
     symBits |-> symBits, offDecs |-> offDecs, k |-> k, offBits |-> offBits,
     extraReq |-> req, extraGot |-> got, extraBits |-> bits]

\* a call that decoded no symbol
NoCode(r, p) == CodeResult(r, p, FALSE, -1, 0, 0, -1, 0, 0, 0, 0)

\* Ok(Some(LzssCode::Reference { len, pos })), x the offset
DecodeRef(ib, d, o, x) ==
    CodeResult(Reference(MatchLen(d.sym), x.off), x.pos, TRUE, d.sym,
               d.pos - ib.pos, 1, o.sym, o.pos - d.pos, x.req, x.got, x.bits)

\* next() after the decode on the offset table, o its value
DecodeOffs(ib, d, o) ==
    IF o.none
    THEN CodeResult(Err("UnexpectedEof"), o.pos, TRUE, d.sym, d.pos - ib.pos,
                    1, -1, 0, 0, 0, 0)
    ELSE DecodeRef(ib, d, o, OffsetOf(o.sym, o.pos))

\* next() after the decode on the symbol table, d its value
DecodeSymb(ib, d) ==
    IF d.none
    THEN NoCode(Err("UnexpectedEof"), d.pos)
    ELSE IF d.sym <= 255
    THEN CodeResult(Symbol(d.sym), d.pos, TRUE, d.sym, d.pos - ib.pos,
                    0, -1, 0, 0, 0, 0)
    ELSE IF ib.offset_decoder.tag = "None"
    THEN CodeResult(Panic, d.pos, TRUE, d.sym, d.pos - ib.pos,
                    0, -1, 0, 0, 0, 0)
    ELSE DecodeOffs(ib, d, Dec(ib.offset_decoder, d.pos))

\* a code followed, when it is the last of its block, by an eager read of
\* the next header
EagerHeader(ib, c) ==
    IF c.result.kind \in {"Symbol", "Reference"} /\ ib.block_len = 1
    THEN [c EXCEPT !.pos = ReadBits(c.pos, 16, U16).pos]
    ELSE c

\* DecodeCode that reads the next header with the final code of a block
DecodeCodeEager(ib) ==
    IF ib.symbol_decoder.tag = "None"
    THEN NoCode(Panic, ib.pos)
    ELSE EagerHeader(ib, DecodeSymb(ib, Dec(ib.symbol_decoder, ib.pos)))

\* the part of next() after the header: one code of the current block.
\* ib is what init_block left (NoInit when it was not called).
DecodeCode(ib) ==
    IF ib.symbol_decoder.tag = "None"
    THEN NoCode(Panic, ib.pos)
    ELSE DecodeSymb(ib, Dec(ib.symbol_decoder, ib.pos))

\* next() after `self.block_len == 0 && !self.init_block(reader)?`
AfterInit(init, ib) ==
    [ib |-> ib, init |-> init,
     decoding |-> ib.err = "" /\ ib.started,
     c |-> IF ib.err = "Panic" THEN NoCode(Panic, ib.pos)
           ELSE IF ib.err # "" THEN NoCode(Err(ib.err), ib.pos)
           ELSE IF ~ib.started THEN NoCode(OkNone, ib.pos)
           ELSE DecodeCode(ib),
     block_len |-> IF ib.err = "" /\ ib.started
                   THEN Decrement(ib.block_len) ELSE ib.block_len]

\* Decoder::next for LzhufDecoderInner: the whole call
NextCall ==
    AfterInit(block_len = 0,
              IF block_len = 0 THEN InitBlock(pos, hist.blk + 1) ELSE NoInit)

----------------------------------------------------------------------------
(* The inputs: bit streams in the wire format                              *)
(* [16-bit count][code-length table][symbol table][offset table][codes],   *)
(* whole and cut short, well-formed and malformed.                         *)

RECURSIVE Bits(_, _)
\* the w-bit field holding v, most significant bit first
Bits(v, w) ==
    IF w = 0 THEN <<>> ELSE Append(Bits(v \div 2, w - 1), v % 2)

\* a degenerate table: count 0, then the constant, both w bits wide
DegTable(c, w) == Bits(0, w) \o Bits(c, w)

\* code-length tables with L = 4: lengths 0 0 1, the 2-bit escape e, and a
\* fourth length 1 when the escape pushed nothing
LenTable4(e) ==
    Bits(4, 5) \o Bits(0, 3) \o Bits(0, 3) \o Bits(1, 3) \o Bits(e, 2)
        \o (IF e = 0 THEN Bits(1, 3) ELSE <<>>)

\* code-length table with L = 3: lengths 1 1 0, no escape
LenTable3 == Bits(3, 5) \o Bits(1, 3) \o Bits(1, 3) \o Bits(0, 3)

\* code-length table with L = 5: lengths 1 1 0, then the escape fills it
LenTable5 == Bits(5, 5) \o Bits(1, 3) \o Bits(1, 3) \o Bits(0, 3) \o Bits(2, 2)

\* code-length and symbol table, in this order
TablePairs ==
    {DegTable(0, 5) \o DegTable(5, 9),
     DegTable(0, 5) \o DegTable(256, 9),
     DegTable(0, 5) \o DegTable(258, 9),
     \* constant code-length symbol 3: every symbol has code length 1
     DegTable(3, 5) \o Bits(2, 9),
     \* run of 256 zeros (symbol 2, e = 236), then lengths 1 1: symbols 256, 257
     LenTable4(0) \o Bits(258, 9) \o <<0>> \o Bits(236, 9) \o <<1, 1>>,
     \* lengths 1 1, then a run of 20 zeros that overshoots the count 3
     LenTable4(0) \o Bits(3, 9) \o <<1, 1, 0>> \o Bits(0, 9),
     \* escapes that fill the list unevenly, or overshoot it
     LenTable4(1), LenTable4(2), LenTable4(3),
     \* L = 3 followed by the bits 1 1
     LenTable3 \o Bits(384, 9) \o <<1, 0, 0, 0, 0>>,
     LenTable5 \o Bits(1, 9) \o <<0>>}

\* offset tables for the offset width w
OffsetTables(w) ==
    {DegTable(c, w) : c \in {c \in {0, 1, 2, 3, 18} : c < 2 ^ w}}
        \cup {IF w = 1 THEN Bits(1, w) \o Bits(1, 3)
                       ELSE Bits(2, w) \o Bits(1, 3) \o Bits(1, 3)}
        \cup (IF w = 1 THEN {}
              ELSE {Bits(3, w) \o Bits(2, 3) \o Bits(2, 3) \o Bits(1, 3)})

\* what follows the tables: the bits of the codes, then the end-of-stream
\* header, a second block, or a second block whose tables fail
Tails(w) ==
    {Bits(0, 16),
     <<1, 0, 1>> \o Bits(0, 16),
     <<1, 1, 0, 1, 0, 1, 1, 0, 0, 1, 1, 1, 0, 0, 0, 1, 0>> \o Bits(0, 16),
     Bits(1, 16) \o DegTable(0, 5) \o DegTable(7, 9) \o DegTable(0, w)
         \o Bits(0, 16),
     Bits(2, 16) \o LenTable4(3),
     Bits(0, 16) \o Bits(1, 16) \o DegTable(0, 5) \o DegTable(9, 9)
         \o DegTable(1, w)}

\* n flags equal to 1
Ones(n) == [i \in 1..n |-> 1]

\* the number of 1 flags after which the u8 of dec_len, starting from the
\* base 7, would hold 2^8
WrapAt == 2 ^ U8 - 7

\* a code-length table with L = 2 whose first length is 7 extended by k
\* flags, the second length 1
LongLenTable(k) ==
    Bits(2, 5) \o Bits(7, 3) \o Ones(k) \o <<0>> \o Bits(1, 3)

\* blocks of one code whose code-length table has an extension of one
\* flag, or one that stays below, reaches, or passes the largest u8
LongStreams(w) ==
    {Bits(1, 16) \o LongLenTable(k) \o DegTable(5, 9) \o DegTable(0, w)
         \o Bits(0, 16) : k \in {1, WrapAt - 1, WrapAt, WrapAt + 1}}

\* code-length table with L = 5: lengths 1 1 0, the escape 0, lengths 0 0
LenTable5NoRun ==
    Bits(5, 5) \o Bits(1, 3) \o Bits(1, 3) \o Bits(0, 3) \o Bits(0, 2)
        \o Bits(0, 3) \o Bits(0, 3)

\* a block of one code whose code-length table has two lengths after an
\* escape that pushed nothing
EscapeStreams(w) ==
    {Bits(1, 16) \o LenTable5NoRun \o DegTable(5, 9) \o DegTable(0, w)
         \o Bits(0, 16)}

\* the well-formed and malformed whole streams for the offset width w
Streams(w) ==
    {Bits(n, 16) \o tp \o ot \o tl :
        n \in 1..MaxCount, tp \in TablePairs, ot \in OffsetTables(w),
        tl \in Tails(w)}
    \cup {Bits(0, 16), Bits(0, 16) \o Bits(1, 16)}
    \cup LongStreams(w) \cup EscapeStreams(w)

\* a stream cut short after n bits
Prefix(s, n) == SubSeq(s, 1, n)

\* the cuts: a stream may end after any of its bits
Cuts(s) == 0..Len(s)

\* the offset widths of the methods
OffsetBits == {1, 2, 5}

----------------------------------------------------------------------------
(* The state machine *)

\* LzhufDecoderInner::new(method), over a reader at the start of its input
Init ==
    /\ offset_len \in OffsetBits
    /\ \E s \in Streams(offset_len) : \E n \in Cuts(s) : input = Prefix(s, n)
    /\ pos = 0
    /\ block_len = 0
    /\ symbol_decoder = NoDecoder
    /\ offset_decoder = NoDecoder
    /\ overflow_checks \in BOOLEAN
    /\ result = NotCalled
    /\ trace = [pos0 |-> 0, init |-> FALSE, c |-> NoCode(NotCalled, 0),
                hdrLen |-> -1, hdrVal |-> 0, started |-> FALSE,
                lt |-> NoTree, st |-> NoTree, ot |-> NoTree,
                block_len0 |-> 0, symbol_decoder0 |-> NoDecoder,
                offset_decoder0 |-> NoDecoder, decoding |-> FALSE,
                emitted0 |-> 0, decl0 |-> 0, failed0 |-> FALSE, blk0 |-> 0,
                everErr0 |-> FALSE, everNone0 |-> FALSE]
    /\ hist = [calls |-> 0, blk |-> 0, decl |-> 0, emitted |-> 0,
               failed |-> FALSE, everErr |-> FALSE, everNone |-> FALSE]

\* whether the call returned a code
IsCode(r) == r.kind \in {"Symbol", "Reference"}

\* the state after a call of next() that did n
Return(n, newb, bad) ==
    /\ pos' = n.c.pos
    /\ block_len' = n.block_len
    /\ symbol_decoder' = n.ib.symbol_decoder
    /\ offset_decoder' = n.ib.offset_decoder
    /\ result' = n.c.result
    /\ trace' = [pos0 |-> pos, init |-> n.init, c |-> n.c,
                 hdrLen |-> n.ib.hdrLen, hdrVal |-> n.ib.hdrVal,
                 started |-> n.ib.started,
                 lt |-> n.ib.lt, st |-> n.ib.st, ot |-> n.ib.ot,
                 block_len0 |-> block_len,
                 symbol_decoder0 |-> symbol_decoder,
                 offset_decoder0 |-> offset_decoder,
                 decoding |-> n.decoding,
                 emitted0 |-> hist.emitted, decl0 |-> hist.decl,
                 failed0 |-> hist.failed, blk0 |-> hist.blk,
                 everErr0 |-> hist.everErr, everNone0 |-> hist.everNone]
    /\ hist' = [calls    |-> hist.calls + 1,
                blk      |-> IF newb THEN hist.blk + 1 ELSE hist.blk,
                decl     |-> IF newb THEN n.ib.hdrVal ELSE hist.decl,
                emitted  |-> (IF newb THEN 0 ELSE hist.emitted)
                             + (IF IsCode(n.c.result) THEN 1 ELSE 0),
                failed   |-> (IF newb THEN FALSE ELSE hist.failed) \/ bad,
                everErr  |-> hist.everErr \/ bad,
                everNone |-> hist.everNone \/ n.c.result.kind = "None"]

\* the history of a call: whether it started a block, whether it failed
Called(n) ==
    Return(n,
           n.init /\ IsBlockHeader([len |-> n.ib.hdrLen, data |-> n.ib.hdrVal]),
           n.c.result.kind \in {"Err", "Panic"})

\* one call of next(); a panic ends the program
Next ==
    /\ hist.calls < MaxCalls
    /\ result.kind # "Panic"
    /\ Called(NextCall)
    /\ UNCHANGED <<input, offset_len, overflow_checks>>

Spec == Init /\ [][Next]_vars

----------------------------------------------------------------------------
(* Properties *)

\* the last call read a block header field
HeaderRead == hist.calls > 0 /\ trace.init

\* C1: whenever next() is called with block_len = 0 and the header read
\* delivers fewer than 16 bits, next() fails with UnexpectedEof.
C1_ShortHeaderFails ==
    (HeaderRead /\ trace.hdrLen < 16) => result = Err("UnexpectedEof")

\* C2: when the header read delivers 16 bits of value 0, next() returns
\* Ok(None), reads nothing after the header and leaves block_len and both
\* decoders as they were; a stream of exactly 16 zero bits ends at once.
C2_CleanEnd ==
    /\ (HeaderRead /\ trace.hdrLen = 16 /\ trace.hdrVal = 0) =>
          /\ result = OkNone
          /\ pos = trace.pos0 + 16
          /\ trace.lt = NoTree /\ trace.st = NoTree /\ trace.ot = NoTree
          /\ block_len = trace.block_len0
          /\ symbol_decoder = trace.symbol_decoder0
          /\ offset_decoder = trace.offset_decoder0
    /\ (input = Bits(0, 16) /\ hist.calls = 1) => result = OkNone

\* a zero header read after a block was decoded: the tables stay
C2_Witness ==
    /\ HeaderRead /\ trace.hdrLen = 16 /\ trace.hdrVal = 0
    /\ result = OkNone
    /\ symbol_decoder.tag = "Default" /\ offset_decoder.tag = "Default"
    /\ hist.blk = 1

\* C3: whenever next() decodes a code of a block, the symbol table and the
\* offset table are both present and were both built from the header of that
\* same block, also in calls made after a call that returned an error.
C3_TablesOfThisBlock ==
    (hist.calls > 0 /\ trace.decoding) =>
        /\ symbol_decoder.tag # "None" /\ offset_decoder.tag # "None"
        /\ symbol_decoder.blk = hist.blk /\ offset_decoder.blk = hist.blk

\* C4: the remaining-code counter starts at the header's count N, goes down
\* by exactly 1 per returned code and never below 0; a block that decodes
\* without error returns exactly N codes, and the next header is read only
\* after the N-th.
C4_BlockCount ==
    /\ block_len >= 0
    /\ (hist.blk > 0 /\ ~hist.failed) => block_len + hist.emitted = hist.decl
    /\ (hist.calls > 0 /\ IsCode(result)) =>
          block_len = (IF trace.init THEN trace.hdrVal ELSE trace.block_len0) - 1
    /\ HeaderRead => trace.block_len0 = 0
    /\ (HeaderRead /\ trace.blk0 > 0 /\ ~trace.failed0) =>
          trace.emitted0 = trace.decl0

\* a block of 2 codes was decoded whole and the header after it was read
C4_Witness ==
    /\ HeaderRead /\ trace.blk0 = 1 /\ ~trace.failed0
    /\ trace.decl0 = 2 /\ trace.emitted0 = 2
    /\ hist.calls = 3

\* C5: pos in {0, 1} gives that offset and reads no extra bit; pos = k >= 2
\* gives 2^(k-1) OR'd with the next k-1 bits, and reads exactly k-1 bits.
C5_OffsetDecoding ==
    (hist.calls > 0 /\ result.kind = "Reference") =>
        LET k == trace.c.k
        IN  /\ k <= 1 => (result.pos = k /\ trace.c.extraGot = 0)
            /\ k >= 2 =>
                  /\ trace.c.extraGot = k - 1
                  /\ result.pos = 2 ^ (k - 1) + trace.c.extraBits
                  /\ result.pos >= 2 ^ (k - 1) /\ result.pos <= 2 ^ k - 1

\* C6: a symbol in [0, 255] is returned as Literal and the offset table is
\* not consulted; a symbol >= 256 is never a literal, and the code returned
\* for it is a Reference of length (s - 256) + M >= M, after exactly one
\* decode from the offset table.
C6_CodeClassification ==
    /\ (hist.calls > 0 /\ trace.c.symDone) =>
          LET s == trace.c.sym
          IN  /\ s >= 0
              /\ s <= 255 => (result = Symbol(s) /\ trace.c.offDecs = 0)
              /\ s >= 256 =>
                    /\ result.kind # "Symbol"
                    /\ IsCode(result) =>
                          /\ result.kind = "Reference"
                          /\ result.len = (s - 256) + LZSS_MIN_MATCH
                          /\ result.len >= LZSS_MIN_MATCH
                          /\ trace.c.offDecs = 1
    /\ (hist.calls > 0 /\ IsCode(result)) => trace.c.symDone

\* both classes in one block: a reference follows a literal
C6_Witness ==
    /\ result.kind = "Reference" /\ trace.c.sym = 257 /\ result.len = 4
    /\ hist.emitted = 2 /\ symbol_decoder.tag = "HuffmanDecoder"

\* a table routine of the last call read the count 0 at position start,
\* in a field w bits wide: the table is the constant of the next w bits
DegenerateBuilt(t, start, w) ==
    t.len = 0 =>
        /\ t.err = "" /\ t.dec.tag = "Default" /\ ~t.built
        /\ start + 2 * w <= Len(input) =>
              (t.dec.s = BitsVal(start + w, w) /\ t.pos = start + 2 * w)

\* C7: a table whose count field reads 0 is the constant of the following
\* field of the same width (5, 9 or P bits); every decode on it in the block
\* returns that constant and reads no bit.
C7_Degenerate ==
    /\ HeaderRead =>
          /\ DegenerateBuilt(trace.lt, trace.pos0 + 16, 5)
          /\ DegenerateBuilt(trace.st, trace.lt.pos, 9)
          /\ DegenerateBuilt(trace.ot, trace.st.pos, offset_len)
    \* decodes on the code-length table, made by dec_symb_tree
    /\ (HeaderRead /\ trace.lt.len = 0 /\ trace.st.len > 0) =>
          LET c    == trace.lt.dec.s
              left == Len(input) - trace.lt.pos
              cnt  == IF left < 9 THEN left ELSE 9
          IN  /\ c = 0 =>
                    (trace.st.ll = Zeros(trace.st.len)
                        /\ trace.st.pos = trace.lt.pos + cnt)
              /\ c >= 3 =>
                    (trace.st.ll = [i \in 1..trace.st.len |-> c - 2]
                        /\ trace.st.pos = trace.lt.pos + cnt)
              /\ c \in {1, 2} =>
                    \A i \in 1..Len(trace.st.ll) : trace.st.ll[i] = 0
    \* decodes on the symbol and the offset table, made by next()
    /\ (hist.calls > 0 /\ trace.c.symDone /\ symbol_decoder.tag = "Default") =>
          (trace.c.sym = symbol_decoder.s /\ trace.c.symBits = 0)
    /\ (hist.calls > 0 /\ trace.c.k >= 0 /\ offset_decoder.tag = "Default") =>
          (trace.c.k = offset_decoder.s /\ trace.c.offBits = 0)
    \* the tables of a block stay as they were built
    /\ (hist.calls > 0 /\ ~trace.init) =>
          /\ symbol_decoder = trace.symbol_decoder0
          /\ offset_decoder = trace.offset_decoder0

\* the second code of a block whose symbol and offset table are constants
C7_Witness ==
    /\ hist.calls = 2 /\ ~trace.init /\ hist.emitted = 2
    /\ symbol_decoder = [DefaultDecoder(258) EXCEPT !.blk = 1]
    /\ offset_decoder = [DefaultDecoder(3) EXCEPT !.blk = 1]
    /\ result.kind = "Reference" /\ result.len = 5

\* C8: whenever the 2-bit escape of dec_len_tree makes the list longer than
\* the declared count L, the routine fails with DataError; no table is ever
\* built from a list longer than L.
C8_LenTreeOvershoot ==
    HeaderRead =>
        /\ (trace.lt.esc >= 0 /\ 3 + trace.lt.esc > trace.lt.len) =>
              /\ trace.lt.err = "DataError" /\ ~trace.lt.built
              /\ result = Err("DataError")
              /\ Len(trace.lt.ll) = 3 + trace.lt.esc
        /\ trace.lt.built => Len(trace.lt.ll) <= trace.lt.len

\* L = 4, three lengths, then the escape 3: 6 entries for a count of 4
C8_Witness ==
    /\ HeaderRead /\ trace.lt.len = 4 /\ trace.lt.esc = 3
    /\ Len(trace.lt.ll) = 6
    /\ result = Err("DataError")

\* C9: when the code-length table declares L = 3 and, after the 3 entries,
\* the next 2 bits of the stream are 1 1, dec_len_tree and next() fail with
\* DataError.
C9_ScenarioC ==
    (/\ HeaderRead /\ trace.lt.len = 3 /\ Len(trace.lt.ll) = 3
     /\ trace.lt.pos + 2 <= Len(input)
     /\ input[trace.lt.pos + 1] = 1 /\ input[trace.lt.pos + 2] = 1) =>
        (trace.lt.err = "DataError" /\ result = Err("DataError"))

\* C10: every fixed-width read other than the block header that delivers
\* fewer bits than requested makes next() fail with UnexpectedEof.
C10_ShortReadFails ==
    (/\ hist.calls > 0
     /\ \/ trace.lt.short \/ trace.st.short \/ trace.ot.short
        \/ trace.c.extraGot < trace.c.extraReq) =>
        result = Err("UnexpectedEof")

\* a call before the last one returned Ok(None) or an error
EndedBefore == trace.everNone0 \/ trace.everErr0

\* C11: on every input the calls of next() reach Ok(None) or an error after
\* finitely many calls. A call that returns a code takes at least 16 bits
\* of the input (the header of a new block) or one unit of block_len, which
\* is below 2^16, and never gives bits back, also when all tables are
\* constants; a call that returns no code returns Ok(None) or an error: no
\* run stops in another way before it has reached one of the two.
C11_Termination ==
    /\ block_len \in 0..(2 ^ U16 - 1)
    /\ (hist.calls > 0 /\ IsCode(result)) =>
          /\ pos >= trace.pos0 /\ pos <= Len(input)
          /\ trace.init =>
                (pos >= trace.pos0 + 16 /\ block_len = trace.hdrVal - 1)
          /\ ~trace.init => block_len = trace.block_len0 - 1
    /\ (hist.calls > 0 /\ ~IsCode(result) /\ ~EndedBefore) =>
          result.kind \in {"None", "Err"}

\* the stream of Scenario B for the offset width 1: one block of one code,
\* all three tables constants (0, 5, 0), then the end-of-stream header
ScenarioB ==
    Bits(1, 16) \o DegTable(0, 5) \o DegTable(5, 9) \o DegTable(0, 1)
        \o Bits(0, 16)

\* C12: on the stream of Scenario B with P = 1 the first next() returns the
\* literal 5 and the second returns Ok(None); neither call fails, and every
\* bit of the stream is consumed.
C12_ScenarioB ==
    (input = ScenarioB /\ offset_len = 1) =>
        /\ hist.calls = 1 => (result = Symbol(5) /\ pos = 46)
        /\ hist.calls = 2 =>
              (result = OkNone /\ pos = Len(input) /\ hist.emitted = 1)
        /\ hist.calls \in {1, 2} => ~hist.everErr

\* the second call on the stream of Scenario B has returned
C12_Witness ==
    /\ input = ScenarioB /\ offset_len = 1
    /\ hist.calls = 2 /\ result = OkNone
    /\ trace.emitted0 = 1 /\ symbol_decoder.s = 5

\* where the code of the last call starts: after the tables when the call
\* read a block header, else where the call started
CodeStart == IF trace.init THEN trace.ot.pos ELSE trace.pos0

\* the last call returned the final code of its block
FinalCode == hist.calls > 0 /\ IsCode(result) /\ block_len = 0

\* C13: the call that returns the final code of a block reads nothing after
\* that code: the position it leaves is the end of the code (symbol, offset
\* symbol, raw offset bits), and a header it read is the one of the code's
\* own block; the header of the following block is read by the next call,
\* starting at that position.
C13_LazyTransition ==
    /\ FinalCode =>
          /\ pos = CodeStart + trace.c.symBits + trace.c.offBits
                       + trace.c.extraGot
          /\ trace.init =>
                /\ trace.pos0 + 16 <= CodeStart
                /\ trace.hdrVal = 1 /\ hist.blk = trace.blk0 + 1
          /\ ~trace.init => (hist.blk = trace.blk0 /\ trace.hdrLen = -1)
    /\ (/\ hist.calls > 1 /\ trace.block_len0 = 0 /\ ~trace.failed0
        /\ trace.blk0 > 0 /\ trace.emitted0 = trace.decl0) =>
          (trace.init /\ trace.hdrLen = ReadBits(trace.pos0, 16, U16).len)

\* the second code of a block of 2, a reference with raw offset bits, is
\* the final one and bits follow it
C13_Witness ==
    /\ FinalCode /\ ~trace.init /\ hist.decl = 2 /\ hist.emitted = 2
    /\ result.kind = "Reference" /\ trace.c.extraGot > 0
    /\ Len(input) >= pos + 16

\* C14: once a call of next() has returned an error, no later call on the
\* same decoder returns a code.
C14_ErrorsTerminal ==
    (hist.calls > 0 /\ hist.everErr) => ~IsCode(result)

\* the entries one item of dec_symb_tree stands for in the run-length
\* grammar of the symbol table
ItemEntries(it) ==
    IF it.sym = 0 THEN <<0>>
    ELSE IF it.sym = 1 THEN Zeros(3 + it.e)
    ELSE IF it.sym = 2 THEN Zeros(20 + it.e)
    ELSE <<it.sym - 2>>

RECURSIVE Expansion(_)
\* the list a sequence of items stands for
Expansion(items) ==
    IF items = <<>> THEN <<>>
    ELSE ItemEntries(Head(items)) \o Expansion(Tail(items))

\* C15: in dec_symb_tree with count L2 > 0 the list is the concatenation of
\* what the decoded symbols stand for (0: one zero; 1: 3 + e zeros, e of 4
\* bits; 2: 20 + e zeros, e of 9 bits; n >= 3: the value n - 2); a symbol is
\* decoded only while the list is shorter than L2; a list of L2 entries or
\* more, overshoot included, goes to the table builder as it is, and the
\* loop itself fails only with UnexpectedEof.
C15_SymbTreeGrammar ==
    (HeaderRead /\ trace.st.len > 0) =>
        LET t == trace.st
        IN  /\ t.ll = Expansion(t.items)
            /\ \A i \in 1..Len(t.items) :
                  /\ t.items[i].at < t.len
                  /\ t.items[i].at = Len(Expansion(SubSeq(t.items, 1, i - 1)))
                  /\ t.items[i].w = (IF t.items[i].sym = 1 THEN 4
                                     ELSE IF t.items[i].sym = 2 THEN 9 ELSE 0)
                  /\ t.items[i].e < 2 ^ t.items[i].w
            /\ t.built <=> Len(t.ll) >= t.len
            /\ ~t.built => t.err = "UnexpectedEof"
            /\ (t.built /\ t.err = "") => t.dec = RealDecoder(t.ll)

\* L2 = 3: two lengths 1, then a run of 20 zeros; the table is built from
\* all 22 entries and a code is decoded with it
C15_Witness ==
    /\ HeaderRead /\ trace.st.len = 3 /\ Len(trace.st.ll) = 22
    /\ trace.st.built /\ trace.st.err = ""
    /\ Len(trace.st.items) = 3 /\ trace.st.items[3].sym = 2
    /\ IsCode(result)

\* C16: when dec_len_tree succeeds with count L > 0, the list the table was
\* built from has exactly L entries; when dec_offs_tree succeeds with count
\* L3 > 0, its list has exactly L3 entries, one per dec_len call, and no
\* escape was read: with every value below 7 the routine read exactly
\* P + 3 * L3 bits.
C16_ExactListLengths ==
    HeaderRead =>
        /\ (trace.lt.len > 0 /\ trace.lt.err = "") =>
              /\ trace.lt.built
              /\ Len(trace.lt.ll) = trace.lt.len
              /\ trace.lt.dec = RealDecoder(trace.lt.ll)
        /\ (trace.ot.len > 0 /\ trace.ot.err = "") =>
              /\ trace.ot.built
              /\ Len(trace.ot.ll) = trace.ot.len
              /\ trace.ot.esc = -1
              /\ trace.ot.pos >= trace.st.pos + offset_len
              /\ (/\ ~trace.ot.short
                  /\ \A i \in 1..Len(trace.ot.ll) : trace.ot.ll[i] < 7) =>
                    trace.ot.pos = trace.st.pos + offset_len + 3 * trace.ot.len

\* a code-length table of 4 entries and an offset table of 3, both built
C16_Witness ==
    /\ HeaderRead /\ IsCode(result)
    /\ trace.lt.len = 4 /\ trace.lt.err = "" /\ trace.lt.esc = 0
    /\ trace.ot.len = 3 /\ trace.ot.err = "" /\ trace.ot.ll = <<2, 2, 1>>

\* the dec_len calls the last call of next() made, in dec_len_tree and
\* dec_offs_tree
LenCalls == trace.lt.items \o trace.ot.items

\* C17: a dec_len call whose 3-bit field is v < 7 returns v and consumes
\* exactly 3 bits; when the field is 7, followed by k flags 1 and a flag 0,
\* it returns 7 + k and consumes exactly 3 + k + 1 bits.
C17_DecLenValue ==
    hist.calls > 0 =>
        \A i \in 1..Len(LenCalls) :
            LenCalls[i].at + 3 <= Len(input) =>
                LET d == LenCalls[i]
                    v == BitsVal(d.at, 3)
                    k == FlagRun(d.at + 3)
                IN  /\ v < 7 => (~d.panic /\ d.c = v /\ d.pos = d.at + 3)
                    /\ (v = 7 /\ d.at + 3 + k < Len(input)) =>
                          /\ ~d.panic
                          /\ d.c = 7 + k
                          /\ d.pos = d.at + 3 + k + 1

\* C18: the u8 of dec_len never overflows: no dec_len call aborts on
\* c += 1 and none returns a value that wrapped around modulo 2^8.
C18_NoOverflow ==
    hist.calls > 0 =>
        \A i \in 1..Len(LenCalls) :
            /\ ~LenCalls[i].panic
            /\ ~LenCalls[i].wrapped
            /\ LenCalls[i].c \in 0..(2 ^ U8 - 1)

\* the dec_len calls of dec_len_tree in the last call of next()
LenTreeCalls == trace.lt.items

\* where the reader stands after the escape read that follows the third
\* dec_len call of dec_len_tree
AfterEscape == ReadBits(LenTreeCalls[3].pos, 2, U8).pos

\* C19: dec_len_tree reads the 2-bit escape at most once, only for a count
\* L > 3 and right after the third dec_len call; every other dec_len call
\* starts where the one before it ended, also the one after an escape that
\* pushed nothing; for L <= 3 the routine reads the count and the dec_len
\* values and nothing else.
C19_EscapeOnce ==
    (HeaderRead /\ trace.lt.len > 0) =>
        /\ trace.lt.esc >= 0 <=>
              /\ trace.lt.len > 3 /\ Len(LenTreeCalls) >= 3
              /\ ~LenTreeCalls[3].panic
        /\ Len(LenTreeCalls) >= 1 =>
              LenTreeCalls[1].at = ReadBits(trace.pos0 + 16, 5, U16).pos
        /\ \A i \in 1..(Len(LenTreeCalls) - 1) :
              LenTreeCalls[i + 1].at =
                  (IF i = 3 THEN AfterEscape ELSE LenTreeCalls[i].pos)
        /\ (trace.lt.esc = 0 /\ trace.lt.len > 3) =>
              /\ Len(LenTreeCalls) >= 4
              /\ LenTreeCalls[4].at = AfterEscape
        /\ (trace.lt.len <= 3 /\ trace.lt.err = "") =>
              /\ Len(LenTreeCalls) = trace.lt.len
              /\ trace.lt.pos = LenTreeCalls[trace.lt.len].pos
        /\ (trace.lt.len > 3 /\ trace.lt.err = "") =>
              trace.lt.pos = (IF Len(LenTreeCalls) = 3 THEN AfterEscape
                              ELSE LenTreeCalls[Len(LenTreeCalls)].pos)

\* L = 5: three lengths, the escape 0, then two more lengths read one
\* after the other
C19_Witness ==
    /\ HeaderRead /\ trace.lt.len = 5 /\ trace.lt.esc = 0
    /\ trace.lt.err = "" /\ Len(LenTreeCalls) = 5
    /\ LenTreeCalls[5].at = LenTreeCalls[4].pos
    /\ LenTreeCalls[4].at = LenTreeCalls[3].pos + 2

\* C20: once a call of next() has returned Ok(None), every later call on
\* the same decoder returns Ok(None), reads no bit and starts no block.
C20_EndSticky ==
    (hist.calls > 0 /\ trace.everNone0) =>
        /\ result = OkNone
        /\ pos = trace.pos0
        /\ hist.blk = trace.blk0

====
